---- MODULE Spec2Model ----
(***************************************************************************)
(* Model of the per-channel message store of main.go: the liveMessages     *)
(* registry, the subjects with their RWMutex, globalMutex, and the four    *)
(* HTTP handlers getMessage, getThreads, postMessage and postThread, each  *)
(* run by its own goroutine and cut into steps at every access to shared   *)
(* state (map access, lock operation, read or write of a log).             *)
(***************************************************************************)
EXTENDS Integers, Sequences, FiniteSets, TLC

\* ------------------------------------------------------------------ bounds
\* goroutines serving requests at the same time
NumProcs == 2
\* messages and thread entries posted over a run, all channels together
MaxWrites == 3
\* the largest index a request asks for
MaxIndex == 1

Procs == 1..NumProcs

\* ------------------------------------------------------------ request data
\* HTTP status codes the handlers answer with.
StatusOK == 200
StatusBadRequest == 400

\* Channel names as they arrive in the URL.
ChannelNames == {"a", "B"}

\* Variant: the name is used as supplied.
ToLower_Identity(s) == s

\* strings.ToLower on the names of the model.
ToLower(s) == IF s = "A" THEN "a" ELSE IF s = "B" THEN "b" ELSE s

\* Every key liveMessages can be asked for.
Keys == ChannelNames \cup {ToLower(n) : n \in ChannelNames}

\* The channel names of the read requests: the posted names in either casing.
ReadNames == ChannelNames \cup {ToLower(n) : n \in ChannelNames}

\* Decimal digits, as the characters of a request parameter.
DigitChars == <<"0", "1", "2", "3", "4", "5", "6", "7", "8", "9">>

DigitVal(c) == (CHOOSE i \in 1..10 : DigitChars[i] = c) - 1

IsDigit(c) == \E i \in 1..10 : DigitChars[i] = c

RECURSIVE DigitsVal(_)
DigitsVal(s) ==
    IF s = <<>> THEN 0
    ELSE 10 * DigitsVal(SubSeq(s, 1, Len(s) - 1)) + DigitVal(s[Len(s)])

\* strconv.Atoi on a sequence of characters: an optional sign and at least
\* one digit, nothing else.
Atoi(s) ==
    LET signed == Len(s) > 0 /\ s[1] \in {"-", "+"}
        digits == IF signed THEN SubSeq(s, 2, Len(s)) ELSE s
    IN  IF digits # <<>> /\ \A i \in 1..Len(digits) : IsDigit(digits[i])
        THEN [ok |-> TRUE,
              val |-> IF signed /\ s[1] = "-" THEN 0 - DigitsVal(digits)
                      ELSE DigitsVal(digits)]
        ELSE [ok |-> FALSE, val |-> 0]

\* The texts the last_id parameter takes in the model: absent, not a number,
\* negative, and the positive indexes up to MaxIndex.
LastIds ==
    {<<>>, <<"x">>, <<"-", "1">>} \cup {<<DigitChars[n + 1]>> : n \in 1..MaxIndex}

\* The texts the message_id path segment takes: not a number, negative, and
\* every index up to MaxIndex.
MessageIds ==
    {<<"x">>, <<"-", "1">>} \cup {<<DigitChars[n + 1]>> : n \in 0..MaxIndex}

\* Author of the requests goroutine p serves.
Author(p) == "u" \o ToString(p)

\* The username and message of a request body: both set, or one of them empty.
Bodies(p) == {<<Author(p), "m">>, <<"", "m">>, <<Author(p), "">>}

\* The requests of postThread: every message_id with a complete body, and
\* one message_id with each incomplete body.
ThreadRequests(p) ==
    {<<raw, b>> : raw \in MessageIds, b \in {<<Author(p), "m">>}}
        \cup {<<raw, b>> : raw \in {<<"0">>}, b \in Bodies(p)}

NoReq == [op |-> "none", name |-> "", raw |-> <<>>, Username |-> "", Message |-> ""]

\* ------------------------------------------------------------------- state
VARIABLES
    liveMessages,   \* the registry: key -> index of a subject in subjects, 0 = no entry
    subjects,       \* the subjects allocated so far: Messages, writer, readers
    globalMutex,    \* 0, or the goroutine holding globalMutex
    pc,             \* per goroutine: the step its handler is at
    req,            \* per goroutine: the request it serves
    subj,           \* per goroutine: the subject it resolved (local subject / lock receiver)
    lid,            \* per goroutine: the local id of postMessage
    result,         \* per goroutine: the response it wrote
    acks,           \* per key: the <<goroutine, id>> of every postMessage answered 200, in order
    tacks,          \* per key and index: the thread of every postThread answered 200, in order
    crashed         \* the runtime stopped the process (fatal error)

vars == <<liveMessages, subjects, globalMutex, pc, req, subj, lid, result, acks, tacks, crashed>>

Nil == 0

NoResult == [status |-> 0, text |-> "", payload |-> <<>>]

Respond(status, text, payload) == [status |-> status, text |-> text, payload |-> payload]

\* The local variable channel of the handler goroutine p runs: lowercased in
\* the two read handlers, as supplied in the two write handlers.
Channel(p) ==
    IF req[p].op \in {"getMessage", "getThreads"} THEN ToLower(req[p].name)
    ELSE req[p].name

\* The local variable id: getMessage takes an absent last_id as 0.
ParseId(p) ==
    IF req[p].op = "getMessage" /\ req[p].raw = <<>> THEN [ok |-> TRUE, val |-> 0]
    ELSE Atoi(req[p].raw)

Id(p) == ParseId(p).val

\* The message or thread entry decoded from the request body.
NewMsg(p, id) ==
    [Id |-> id, Username |-> req[p].Username, Message |-> req[p].Message, Threads |-> <<>>]

NewThread(p) == [Username |-> req[p].Username, Message |-> req[p].Message]

\* Variant: the body is accepted without validation.
NonEmpty_Always(p) == TRUE

NonEmpty(p) == req[p].Username # "" /\ req[p].Message # ""

\* Messages and thread entries held by all subjects together.
RECURSIVE SumLen(_)
SumLen(s) == IF s = <<>> THEN 0 ELSE Len(s[1]) + SumLen(Tail(s))

ThreadsIn(msgs) == SumLen([j \in 1..Len(msgs) |-> msgs[j].Threads])

TotalMsgs == SumLen([i \in 1..Len(subjects) |-> subjects[i].Messages])

RECURSIVE SumThreads(_)
SumThreads(ss) ==
    IF ss = <<>> THEN 0 ELSE ThreadsIn(ss[1].Messages) + SumThreads(Tail(ss))

TotalThreads == SumThreads(subjects)

\* A handler that wrote no response because the goroutine panicked.
PanicResult == [status |-> 0, text |-> "panic", payload |-> <<>>]

\* ------------------------------------------------------------------- locks
\* sync.RWMutex of a subject: Lock waits for the writer and all readers to
\* leave, RLock waits for the writer to leave.
CanLock(s) == subjects[s].w = 0 /\ subjects[s].r = {}

\* Mutant of CanRLock: readers do not wait for the writer.
CanRLock_IgnoresWriter(s) == TRUE

CanRLock(s) == subjects[s].w = 0

\* Mutant of GlobalFree: globalMutex excludes nobody.
GlobalFree_NoExclusion == TRUE

\* sync.Mutex globalMutex.
GlobalFree == globalMutex = 0

\* A goroutine is inside the runtime's map assignment of liveMessages.
MapWriting(p) == \E q \in Procs \ {p} : pc[q] = "pm_store"

\* The shape of the state: Thread, msgPost, subject, liveMessages and
\* globalMutex of lines 15-42, and the locals of the handlers.
ThreadType(th) == DOMAIN th = {"Username", "Message"}

MsgPostType(m) ==
    /\ DOMAIN m = {"Id", "Username", "Message", "Threads"}
    /\ m.Id \in Nat
    /\ \A i \in 1..Len(m.Threads) : ThreadType(m.Threads[i])

SubjectType(s) ==
    /\ DOMAIN s = {"Messages", "w", "r"}
    /\ \A i \in 1..Len(s.Messages) : MsgPostType(s.Messages[i])
    /\ s.w \in Procs \cup {0}
    /\ s.r \subseteq Procs

TypeOK ==
    /\ liveMessages \in [Keys -> 0..Len(subjects)]
    /\ \A i \in 1..Len(subjects) : SubjectType(subjects[i])
    /\ globalMutex \in Procs \cup {0}
    /\ subj \in [Procs -> 0..Len(subjects)]
    /\ lid \in [Procs -> Nat]
    /\ crashed \in BOOLEAN
    /\ \A k \in Keys : \A i \in 0..MaxIndex :
          \A j \in 1..Len(tacks[k][i]) : ThreadType(tacks[k][i][j])

\* ------------------------------------------------------------------- Init
Init ==
    /\ liveMessages = [k \in Keys |-> Nil]
    /\ subjects = <<>>
    /\ globalMutex = 0
    /\ pc = [p \in Procs |-> "idle"]
    /\ req = [p \in Procs |-> NoReq]
    /\ subj = [p \in Procs |-> Nil]
    /\ lid = [p \in Procs |-> 0]
    /\ result = [p \in Procs |-> NoResult]
    /\ acks = [k \in Keys |-> <<>>]
    /\ tacks = [k \in Keys |-> [i \in 0..MaxIndex |-> <<>>]]
    /\ crashed = FALSE

\* --------------------------------------------------------------- requests
\* postMessage calls that passed validation and have not appended yet, and
\* postThread calls that may still append.
PendingPosts ==
    Cardinality({q \in Procs : pc[q] \in {"pm_check", "pm_glock", "pm_recheck", "pm_alloc",
                                           "pm_store", "pm_lock", "pm_len", "pm_append"}
                               /\ NonEmpty(q)})

PendingThreads ==
    Cardinality({q \in Procs : pc[q] \in {"pt_check", "pt_len", "pt_lock", "pt_append"}
                               /\ NonEmpty(q) /\ ParseId(q).ok})

Written == TotalMsgs + TotalThreads

Pending == PendingPosts + PendingThreads

\* The router hands a request to a goroutine (main: the four routes).
Start(p) ==
    /\ ~crashed
    /\ pc[p] = "idle"
    /\ \/ \E n \in ReadNames : \E raw \in LastIds :
             /\ req' = [req EXCEPT ![p] = [op |-> "getMessage", name |-> n, raw |-> raw,
                                           Username |-> "", Message |-> ""]]
             /\ pc' = [pc EXCEPT ![p] = "gm_lookup"]
       \/ \E n \in ReadNames : \E raw \in MessageIds :
             /\ req' = [req EXCEPT ![p] = [op |-> "getThreads", name |-> n, raw |-> raw,
                                           Username |-> "", Message |-> ""]]
             /\ pc' = [pc EXCEPT ![p] = "gt_lookup"]
       \/ \E n \in ChannelNames : \E b \in Bodies(p) :
             /\ (b[1] # "" /\ b[2] # "") => Written + Pending < MaxWrites
             /\ req' = [req EXCEPT ![p] = [op |-> "postMessage", name |-> n, raw |-> <<>>,
                                           Username |-> b[1], Message |-> b[2]]]
             /\ pc' = [pc EXCEPT ![p] = "pm_check"]
       \/ \E n \in ChannelNames : \E t \in ThreadRequests(p) :
             /\ (t[2][1] # "" /\ t[2][2] # "" /\ Atoi(t[1]).ok)
                   => Written + Pending < MaxWrites
             /\ req' = [req EXCEPT ![p] = [op |-> "postThread", name |-> n, raw |-> t[1],
                                           Username |-> t[2][1], Message |-> t[2][2]]]
             /\ pc' = [pc EXCEPT ![p] = "pt_check"]
    /\ UNCHANGED <<liveMessages, subjects, globalMutex, subj, lid, result, acks, tacks, crashed>>

\* The handler has returned; the goroutine is free for the next request.
Finish(p) ==
    /\ ~crashed
    /\ pc[p] = "done"
    /\ pc' = [pc EXCEPT ![p] = "idle"]
    /\ req' = [req EXCEPT ![p] = NoReq]
    /\ subj' = [subj EXCEPT ![p] = Nil]
    /\ lid' = [lid EXCEPT ![p] = 0]
    /\ result' = [result EXCEPT ![p] = NoResult]
    /\ UNCHANGED <<liveMessages, subjects, globalMutex, acks, tacks, crashed>>

\* -------------------------------------------------------------- getMessage
\* Lines 45-61 and 71-74: lowercase the channel, parse last_id, look the
\* channel up in liveMessages without any lock.
GmLookup(p) ==
    /\ ~crashed
    /\ pc[p] = "gm_lookup"
    /\ IF ~ParseId(p).ok
       THEN /\ result' = [result EXCEPT ![p] =
                             Respond(StatusBadRequest, "last_id should be an integer", <<>>)]
            /\ pc' = [pc EXCEPT ![p] = "done"]
            /\ subj' = subj
       ELSE IF liveMessages[Channel(p)] = Nil
       THEN /\ result' = [result EXCEPT ![p] =
                             Respond(StatusBadRequest, "Sorry No such channel exist!", <<>>)]
            /\ pc' = [pc EXCEPT ![p] = "done"]
            /\ subj' = subj
       ELSE /\ subj' = [subj EXCEPT ![p] = liveMessages[Channel(p)]]
            /\ pc' = [pc EXCEPT ![p] = "gm_rlock"]
            /\ result' = result
    /\ UNCHANGED <<liveMessages, subjects, globalMutex, req, lid, acks, tacks, crashed>>

\* Line 64: subject.RLock().
GmRLock(p) ==
    /\ ~crashed
    /\ pc[p] = "gm_rlock"
    /\ CanRLock(subj[p])
    /\ subjects' = [subjects EXCEPT ![subj[p]].r = @ \cup {p}]
    /\ pc' = [pc EXCEPT ![p] = "gm_read"]
    /\ UNCHANGED <<liveMessages, globalMutex, req, subj, lid, result, acks, tacks, crashed>>

\* The bound check of line 66: nothing to return when this holds.
NothingNew(id, msgs) == id >= Len(msgs)

\* Mutant of SliceFrom: the slice starts one message late.
SliceFrom_OneLate(msgs, id) == SubSeq(msgs, id + 2, Len(msgs))

\* subject.Messages[id:] of line 70: a slice expression panics unless
\* 0 <= id <= len.
SliceFrom(msgs, id) == SubSeq(msgs, id + 1, Len(msgs))

\* Lines 66-70: the bound check and the response, written with the read
\* lock held.
GmRead(p) ==
    /\ ~crashed
    /\ pc[p] = "gm_read"
    /\ LET msgs == subjects[subj[p]].Messages
       IN  result' = [result EXCEPT ![p] =
               IF NothingNew(Id(p), msgs)
               THEN Respond(StatusBadRequest, "No new message after last_id", <<>>)
               ELSE IF Id(p) < 0 THEN PanicResult
               ELSE Respond(StatusOK, "messages", SliceFrom(msgs, Id(p)))]
    /\ pc' = [pc EXCEPT ![p] = "gm_unlock"]
    /\ UNCHANGED <<liveMessages, subjects, globalMutex, req, subj, lid, acks, tacks, crashed>>

\* Line 65: the deferred subject.RUnlock() runs as the handler returns.
GmUnlock(p) ==
    /\ ~crashed
    /\ pc[p] = "gm_unlock"
    /\ subjects' = [subjects EXCEPT ![subj[p]].r = @ \ {p}]
    /\ pc' = [pc EXCEPT ![p] = "done"]
    /\ UNCHANGED <<liveMessages, globalMutex, req, subj, lid, result, acks, tacks, crashed>>

\* -------------------------------------------------------------- getThreads
\* Lines 80-89 and 99-101.
GtLookup(p) ==
    /\ ~crashed
    /\ pc[p] = "gt_lookup"
    /\ IF ~ParseId(p).ok
       THEN /\ result' = [result EXCEPT ![p] =
                             Respond(StatusBadRequest, "message_id should be an integer", <<>>)]
            /\ pc' = [pc EXCEPT ![p] = "done"]
            /\ subj' = subj
       ELSE IF liveMessages[Channel(p)] = Nil
       THEN /\ result' = [result EXCEPT ![p] =
                             Respond(StatusBadRequest, "Sorry No such channel exist!", <<>>)]
            /\ pc' = [pc EXCEPT ![p] = "done"]
            /\ subj' = subj
       ELSE /\ subj' = [subj EXCEPT ![p] = liveMessages[Channel(p)]]
            /\ pc' = [pc EXCEPT ![p] = "gt_rlock"]
            /\ result' = result
    /\ UNCHANGED <<liveMessages, subjects, globalMutex, req, lid, acks, tacks, crashed>>

\* Line 92: subject.RLock().
GtRLock(p) ==
    /\ ~crashed
    /\ pc[p] = "gt_rlock"
    /\ CanRLock(subj[p])
    /\ subjects' = [subjects EXCEPT ![subj[p]].r = @ \cup {p}]
    /\ pc' = [pc EXCEPT ![p] = "gt_read"]
    /\ UNCHANGED <<liveMessages, globalMutex, req, subj, lid, result, acks, tacks, crashed>>

\* The bound check of line 94: the request is refused when this holds.
NoSuchIndex(id, msgs) == id >= Len(msgs)

\* subject.Messages[id] of lines 98 and 197: the Go index, counted from 0.
\* An index expression panics unless 0 <= id < len.
\* Variant: the message is looked up by its id, one position earlier.
AtIndex_ById(msgs, id) == msgs[IF id >= 1 THEN id ELSE 1]

AtIndex(msgs, id) == msgs[id + 1]

InRange(msgs, id) == 0 <= id /\ id < Len(msgs)

\* Lines 94-98.
GtRead(p) ==
    /\ ~crashed
    /\ pc[p] = "gt_read"
    /\ LET msgs == subjects[subj[p]].Messages
       IN  result' = [result EXCEPT ![p] =
               IF NoSuchIndex(Id(p), msgs)
               THEN Respond(StatusBadRequest, "No message for the provided id", <<>>)
               ELSE IF ~InRange(msgs, Id(p)) THEN PanicResult
               ELSE Respond(StatusOK, "messages", AtIndex(msgs, Id(p)).Threads)]
    /\ pc' = [pc EXCEPT ![p] = "gt_unlock"]
    /\ UNCHANGED <<liveMessages, subjects, globalMutex, req, subj, lid, acks, tacks, crashed>>

\* Line 93: the deferred subject.RUnlock().
GtUnlock(p) ==
    /\ ~crashed
    /\ pc[p] = "gt_unlock"
    /\ subjects' = [subjects EXCEPT ![subj[p]].r = @ \ {p}]
    /\ pc' = [pc EXCEPT ![p] = "done"]
    /\ UNCHANGED <<liveMessages, globalMutex, req, subj, lid, result, acks, tacks, crashed>>

\* ------------------------------------------------------------- postMessage
\* The unlocked test of line 127 and the test of line 134 under globalMutex:
\* is there no subject for the channel yet?
\* Mutant of FirstCheckNil: every call goes through globalMutex.
FirstCheckNil_Always(ch) == TRUE

FirstCheckNil(ch) == liveMessages[ch] = Nil

\* Mutant of SecondCheckNil: the subject is created without looking again.
SecondCheckNil_Always(ch) == TRUE

SecondCheckNil(ch) == liveMessages[ch] = Nil

\* Lines 111-127 and 151-153: validation, then the first, unlocked look at
\* liveMessages.
PmCheck(p) ==
    /\ ~crashed
    /\ pc[p] = "pm_check"
    /\ IF ~NonEmpty(p)
       THEN /\ result' = [result EXCEPT ![p] =
                             Respond(StatusBadRequest, "Empty username or message!", <<>>)]
            /\ pc' = [pc EXCEPT ![p] = "done"]
       ELSE /\ pc' = [pc EXCEPT ![p] =
                         IF FirstCheckNil(Channel(p)) THEN "pm_glock" ELSE "pm_lock"]
            /\ result' = result
    /\ UNCHANGED <<liveMessages, subjects, globalMutex, req, subj, lid, acks, tacks, crashed>>

\* Lines 131-132: globalMutex.Lock(); its Unlock is deferred to the return
\* of the handler.
PmGLock(p) ==
    /\ ~crashed
    /\ pc[p] = "pm_glock"
    /\ GlobalFree
    /\ globalMutex' = p
    /\ pc' = [pc EXCEPT ![p] = "pm_recheck"]
    /\ UNCHANGED <<liveMessages, subjects, req, subj, lid, result, acks, tacks, crashed>>

\* Line 134: the second look, under globalMutex.
PmRecheck(p) ==
    /\ ~crashed
    /\ pc[p] = "pm_recheck"
    /\ pc' = [pc EXCEPT ![p] = IF SecondCheckNil(Channel(p)) THEN "pm_alloc" ELSE "pm_lock"]
    /\ UNCHANGED <<liveMessages, subjects, globalMutex, req, subj, lid, result, acks, tacks, crashed>>

\* &subject{} of line 135: a subject with no message and a free lock.
NewSubject == [Messages |-> <<>>, w |-> 0, r |-> {}]

\* Line 135, first half: allocate the subject and enter the map assignment.
PmAlloc(p) ==
    /\ ~crashed
    /\ pc[p] = "pm_alloc"
    /\ subjects' = Append(subjects, NewSubject)
    /\ subj' = [subj EXCEPT ![p] = Len(subjects) + 1]
    /\ pc' = [pc EXCEPT ![p] = "pm_store"]
    /\ UNCHANGED <<liveMessages, globalMutex, req, lid, result, acks, tacks, crashed>>

\* Line 135, second half: the entry is in the map.
PmStore(p) ==
    /\ ~crashed
    /\ pc[p] = "pm_store"
    /\ liveMessages' = [liveMessages EXCEPT ![Channel(p)] = subj[p]]
    /\ pc' = [pc EXCEPT ![p] = "pm_lock"]
    /\ UNCHANGED <<subjects, globalMutex, req, subj, lid, result, acks, tacks, crashed>>

\* Lines 141-142: liveMessages[channel].Lock(), and the receiver of the
\* deferred Unlock. A nil entry is a nil dereference: the handler panics.
PmLock(p) ==
    /\ ~crashed
    /\ pc[p] = "pm_lock"
    /\ LET s == liveMessages[Channel(p)]
       IN  IF s = Nil
           THEN /\ result' = [result EXCEPT ![p] = PanicResult]
                /\ subj' = [subj EXCEPT ![p] = Nil]
                /\ pc' = [pc EXCEPT ![p] = "pm_return"]
                /\ subjects' = subjects
           ELSE /\ CanLock(s)
                /\ subjects' = [subjects EXCEPT ![s].w = p]
                /\ subj' = [subj EXCEPT ![p] = s]
                /\ pc' = [pc EXCEPT ![p] = "pm_len"]
                /\ result' = result
    /\ UNCHANGED <<liveMessages, globalMutex, req, lid, acks, tacks, crashed>>

\* Mutant of NextId: the increment of line 144 is missing.
NextId_NoIncrement(msgs) == Len(msgs)

\* Lines 143-144: id = len(Messages); id++.
NextId(msgs) == Len(msgs) + 1

\* Lines 143-145: the id of the new message.
PmLen(p) ==
    /\ ~crashed
    /\ pc[p] = "pm_len"
    /\ lid' = [lid EXCEPT ![p] = NextId(subjects[liveMessages[Channel(p)]].Messages)]
    /\ pc' = [pc EXCEPT ![p] = "pm_append"]
    /\ UNCHANGED <<liveMessages, subjects, globalMutex, req, subj, result, acks, tacks, crashed>>

\* Line 146: append the message to the log of the channel.
\* Variant: the slice is reassigned to the new message alone.
AppendMsg_Overwrite(msgs, m) == <<m>>

\* Variant: the result of append is not assigned back to the slice.
AppendMsg_Dropped(msgs, m) == msgs

\* subject.Messages = append(subject.Messages, mesg)
AppendMsg(msgs, m) == Append(msgs, m)

PmAppend(p) ==
    /\ ~crashed
    /\ pc[p] = "pm_append"
    /\ subjects' = [subjects EXCEPT ![liveMessages[Channel(p)]].Messages =
                       AppendMsg(@, NewMsg(p, lid[p]))]
    /\ pc' = [pc EXCEPT ![p] = "pm_respond"]
    /\ UNCHANGED <<liveMessages, globalMutex, req, subj, lid, result, acks, tacks, crashed>>

\* Line 150: the id goes back to the caller, all locks still held.
PmRespond(p) ==
    /\ ~crashed
    /\ pc[p] = "pm_respond"
    /\ result' = [result EXCEPT ![p] = Respond(StatusOK, "id", <<lid[p]>>)]
    /\ acks' = [acks EXCEPT ![Channel(p)] = Append(@, <<p, lid[p]>>)]
    /\ pc' = [pc EXCEPT ![p] = "pm_return"]
    /\ UNCHANGED <<liveMessages, subjects, globalMutex, req, subj, lid, tacks, crashed>>

\* Lines 142 and 132: the deferred Unlock of the channel, then the deferred
\* globalMutex.Unlock() when this call took it.
PmReturn(p) ==
    /\ ~crashed
    /\ pc[p] = "pm_return"
    /\ subjects' = IF subj[p] = Nil THEN subjects ELSE [subjects EXCEPT ![subj[p]].w = 0]
    /\ globalMutex' = IF globalMutex = p THEN 0 ELSE globalMutex
    /\ pc' = [pc EXCEPT ![p] = "done"]
    /\ UNCHANGED <<liveMessages, req, subj, lid, result, acks, tacks, crashed>>

\* -------------------------------------------------------------- postThread
\* Variant: the index is not checked against the length of the log.
NoSuchMessage_Never(id, msgs) == FALSE

\* Mutant of NoSuchMessage: the comparison is > instead of >=.
NoSuchMessage_Greater(id, msgs) == id > Len(msgs)

\* The bound check of line 190, made before the lock is taken.
NoSuchMessage(id, msgs) == id >= Len(msgs)

\* Lines 162-186 and 202-204: parse message_id, validate, look the channel up.
PtCheck(p) ==
    /\ ~crashed
    /\ pc[p] = "pt_check"
    /\ IF ~ParseId(p).ok
       THEN /\ result' = [result EXCEPT ![p] =
                             Respond(StatusBadRequest, "message_id should be an integer", <<>>)]
            /\ pc' = [pc EXCEPT ![p] = "done"]
       ELSE IF ~NonEmpty(p)
       THEN /\ result' = [result EXCEPT ![p] =
                             Respond(StatusBadRequest, "Empty username or message!", <<>>)]
            /\ pc' = [pc EXCEPT ![p] = "done"]
       ELSE IF liveMessages[Channel(p)] = Nil
       THEN /\ result' = [result EXCEPT ![p] =
                             Respond(StatusBadRequest, "Provided channel does not exist!", <<>>)]
            /\ pc' = [pc EXCEPT ![p] = "done"]
       ELSE /\ pc' = [pc EXCEPT ![p] = "pt_len"]
            /\ result' = result
    /\ UNCHANGED <<liveMessages, subjects, globalMutex, req, subj, lid, acks, tacks, crashed>>

\* Lines 190-193: the length of the log, read without the lock.
PtLen(p) ==
    /\ ~crashed
    /\ pc[p] = "pt_len"
    /\ LET s == liveMessages[Channel(p)]
       IN  IF s = Nil
           THEN /\ result' = [result EXCEPT ![p] = PanicResult]
                /\ pc' = [pc EXCEPT ![p] = "done"]
           ELSE IF NoSuchMessage(Id(p), subjects[s].Messages)
           THEN /\ result' = [result EXCEPT ![p] =
                      Respond(StatusBadRequest, "Provided messageId does not exist!", <<>>)]
                /\ pc' = [pc EXCEPT ![p] = "done"]
           ELSE /\ pc' = [pc EXCEPT ![p] = "pt_lock"]
                /\ result' = result
    /\ UNCHANGED <<liveMessages, subjects, globalMutex, req, subj, lid, acks, tacks, crashed>>

\* Lines 195-196: liveMessages[channel].Lock() and the deferred Unlock.
PtLock(p) ==
    /\ ~crashed
    /\ pc[p] = "pt_lock"
    /\ LET s == liveMessages[Channel(p)]
       IN  IF s = Nil
           THEN /\ result' = [result EXCEPT ![p] = PanicResult]
                /\ subj' = [subj EXCEPT ![p] = Nil]
                /\ pc' = [pc EXCEPT ![p] = "pt_return"]
                /\ subjects' = subjects
           ELSE /\ CanLock(s)
                /\ subjects' = [subjects EXCEPT ![s].w = p]
                /\ subj' = [subj EXCEPT ![p] = s]
                /\ pc' = [pc EXCEPT ![p] = "pt_append"]
                /\ result' = result
    /\ UNCHANGED <<liveMessages, globalMutex, req, lid, acks, tacks, crashed>>

\* Line 197: the thread entry goes to Messages[id].Threads; an index outside
\* the log panics with the lock held.
PtAppend(p) ==
    /\ ~crashed
    /\ pc[p] = "pt_append"
    /\ LET s == liveMessages[Channel(p)]
           msgs == subjects[s].Messages
       IN  IF InRange(msgs, Id(p))
           THEN /\ subjects' = [subjects EXCEPT ![s].Messages[Id(p) + 1].Threads =
                                   Append(@, NewThread(p))]
                /\ pc' = [pc EXCEPT ![p] = "pt_respond"]
                /\ result' = result
           ELSE /\ result' = [result EXCEPT ![p] = PanicResult]
                /\ pc' = [pc EXCEPT ![p] = "pt_return"]
                /\ subjects' = subjects
    /\ UNCHANGED <<liveMessages, globalMutex, req, subj, lid, acks, tacks, crashed>>

\* Line 201: the message id is echoed, the lock still held.
PtRespond(p) ==
    /\ ~crashed
    /\ pc[p] = "pt_respond"
    /\ result' = [result EXCEPT ![p] = Respond(StatusOK, "id", <<Id(p)>>)]
    /\ tacks' = [tacks EXCEPT ![Channel(p)][Id(p)] = Append(@, NewThread(p))]
    /\ pc' = [pc EXCEPT ![p] = "pt_return"]
    /\ UNCHANGED <<liveMessages, subjects, globalMutex, req, subj, lid, acks, crashed>>

\* Line 196: the deferred Unlock.
PtReturn(p) ==
    /\ ~crashed
    /\ pc[p] = "pt_return"
    /\ subjects' = IF subj[p] = Nil THEN subjects ELSE [subjects EXCEPT ![subj[p]].w = 0]
    /\ pc' = [pc EXCEPT ![p] = "done"]
    /\ UNCHANGED <<liveMessages, globalMutex, req, subj, lid, result, acks, tacks, crashed>>

\* ------------------------------------------------------- unsynchronised map
\* The steps at which a handler reads liveMessages holding no lock that the
\* writer of line 135 holds too.
ReadsMap(p) ==
    \/ pc[p] \in {"gm_lookup", "gt_lookup"} /\ ParseId(p).ok
    \/ pc[p] = "pm_check" /\ NonEmpty(p)
    \/ pc[p] = "pt_check" /\ ParseId(p).ok /\ NonEmpty(p)
    \/ pc[p] \in {"pm_lock", "pm_len", "pm_append", "pt_len", "pt_lock", "pt_append"}

\* A map read that overlaps the map assignment of another goroutine is a data
\* race: the read may still return the entry as it was before or after the
\* assignment (the steps above), or the runtime detects the race and stops
\* the process with "fatal error: concurrent map read and map write".
Fatal(p) ==
    /\ ~crashed
    /\ ReadsMap(p)
    /\ MapWriting(p)
    /\ crashed' = TRUE
    /\ UNCHANGED <<liveMessages, subjects, globalMutex, pc, req, subj, lid, result, acks, tacks>>

\* -------------------------------------------------------------------- spec
Next ==
    \E p \in Procs :
        \/ Start(p) \/ Finish(p)
        \/ GmLookup(p) \/ GmRLock(p) \/ GmRead(p) \/ GmUnlock(p)
        \/ GtLookup(p) \/ GtRLock(p) \/ GtRead(p) \/ GtUnlock(p)
        \/ PmCheck(p) \/ PmGLock(p) \/ PmRecheck(p) \/ PmAlloc(p) \/ PmStore(p)
        \/ PmLock(p) \/ PmLen(p) \/ PmAppend(p) \/ PmRespond(p) \/ PmReturn(p)
        \/ PtCheck(p) \/ PtLen(p) \/ PtLock(p) \/ PtAppend(p) \/ PtRespond(p) \/ PtReturn(p)
        \/ Fatal(p)

Spec == Init /\ [][Next]_vars

\* ------------------------------------------------------------- properties
\* The log of the channel registered under key c, empty when there is none.
Log(c) == IF liveMessages[c] = Nil THEN <<>> ELSE subjects[liveMessages[c]].Messages

\* The goroutines serving a postMessage on channel c.
PostsInFlight(c) ==
    {p \in Procs : req[p].op = "postMessage" /\ Channel(p) = c /\ pc[p] \notin {"idle", "done"}}

AckIds(c) == {acks[c][i][2] : i \in 1..Len(acks[c])}

\* C1. Sequential IDs: in every reachable state the k-th message of every log
\* has id k, and the ids answered to the callers of postMessage on a channel
\* are exactly 1..N, N the number of answered calls, none twice.
C1_SequentialIds ==
    /\ \A s \in 1..Len(subjects) :
          \A k \in 1..Len(subjects[s].Messages) : subjects[s].Messages[k].Id = k
    /\ \A c \in Keys :
          /\ AckIds(c) = 1..Len(acks[c])
          /\ \A i, j \in 1..Len(acks[c]) : i # j => acks[c][i][2] # acks[c][j][2]

\* Two goroutines have each been answered an id on the same channel.
C1_Witness ==
    \E c \in Keys :
        /\ Len(acks[c]) = 2
        /\ acks[c][1][1] # acks[c][2][1]
        /\ Len(Log(c)) = 2

\* C2. No lost updates: once every postMessage on a channel has returned,
\* the log holds exactly one message per answered call, each call's message
\* at the position of the id it was answered, and every call with a complete
\* body was answered 200.
C2_NoLostUpdates ==
    /\ \A c \in Keys :
          PostsInFlight(c) = {} =>
              /\ Len(Log(c)) = Len(acks[c])
              /\ \A i \in 1..Len(acks[c]) :
                    LET id == acks[c][i][2]
                    IN  /\ id \in 1..Len(Log(c))
                        /\ Log(c)[id].Username = Author(acks[c][i][1])
                        /\ Log(c)[id].Message = "m"
              /\ \A i, j \in 1..Len(acks[c]) : i # j => acks[c][i][2] # acks[c][j][2]
    /\ \A p \in Procs :
          (pc[p] = "done" /\ req[p].op = "postMessage" /\ NonEmpty(p))
              => result[p].status = StatusOK

\* Two goroutines have posted to the same channel, both calls have returned
\* and no postMessage on the channel is left running.
C2_Witness ==
    \E c \in Keys, p, q \in Procs :
        /\ p # q
        /\ PostsInFlight(c) = {}
        /\ acks[c] = <<<<p, 1>>, <<q, 2>>>>
        /\ pc[q] = "done" /\ req[q].op = "postMessage" /\ Channel(q) = c
        /\ Len(Log(c)) = 2

\* C3. Exactly-once store creation: an entry of liveMessages, once set, is
\* never replaced; every subject ever allocated is the entry of exactly one
\* name or about to be stored as one; and every postMessage that holds a
\* channel lock holds the lock of the subject registered for its channel and
\* appends to it.
C3_Installed ==
    /\ \A s \in 1..Len(subjects) :
          \/ \E c \in Keys : liveMessages[c] = s
          \/ \E p \in Procs : pc[p] = "pm_store" /\ subj[p] = s
    /\ \A c, d \in Keys : (liveMessages[c] # Nil /\ liveMessages[c] = liveMessages[d]) => c = d
    /\ \A p, q \in Procs :
          (pc[p] = "pm_store" /\ pc[q] = "pm_store") => p = q
    /\ \A p \in Procs :
          pc[p] \in {"pm_len", "pm_append", "pm_respond"} =>
              /\ subj[p] = liveMessages[Channel(p)]
              /\ subjects[subj[p]].w = p

C3_NeverReplaced ==
    \A c \in Keys : liveMessages[c] # Nil => liveMessages'[c] = liveMessages[c]

C3_ExactlyOnceStore == [](C3_Installed) /\ [][C3_NeverReplaced]_vars

\* Two calls found the channel missing at line 127; the first created the
\* subject and posted, the second holds globalMutex and the lock of that
\* same subject.
C3_Witness ==
    \E p, q \in Procs :
        /\ p # q
        /\ req[p].op = "postMessage" /\ req[q].op = "postMessage"
        /\ Channel(p) = Channel(q)
        /\ globalMutex = q /\ pc[q] = "pm_append"
        /\ subj[q] = liveMessages[Channel(q)]
        /\ Len(Log(Channel(q))) = 1 /\ Log(Channel(q))[1].Username = Author(p)
        /\ Len(subjects) = 1

\* A postThread request that gets past parsing and validation with a
\* message_id that is not negative.
ValidThread(p) ==
    req[p].op = "postThread" /\ ParseId(p).ok /\ Id(p) >= 0 /\ NonEmpty(p)

\* C4. A successful postThread(channel, messageId, thread) appends the thread
\* to the thread sequence of the message whose id equals messageId and leaves
\* the thread sequence of every other message of the channel unchanged.
C4_AppendStep ==
    \A p \in Procs :
        (pc[p] = "pt_append" /\ pc'[p] = "pt_respond") =>
            LET old == Log(Channel(p))
                new == subjects'[liveMessages[Channel(p)]].Messages
            IN  /\ Len(new) = Len(old)
                /\ \A k \in 1..Len(old) :
                      new[k].Threads = IF old[k].Id = Id(p)
                                       THEN Append(old[k].Threads, NewThread(p))
                                       ELSE old[k].Threads

C4_ThreadToMessageId == [][C4_AppendStep]_vars

\* C5. getThreads on an existing channel with count messages answers
\* no-such-message exactly when messageId is outside 1..count, and otherwise
\* answers the thread sequence of the message whose id equals messageId
\* (stated here for every messageId >= 0).
C5_GetThreadsById ==
    \A p \in Procs :
        (pc[p] = "gt_unlock" /\ Id(p) >= 0) =>
            LET msgs == subjects[subj[p]].Messages
            IN  IF Id(p) \notin 1..Len(msgs)
                THEN result[p] =
                        Respond(StatusBadRequest, "No message for the provided id", <<>>)
                ELSE result[p] =
                        Respond(StatusOK, "messages",
                                msgs[CHOOSE k \in 1..Len(msgs) : msgs[k].Id = Id(p)].Threads)

\* C6. Thread append targeting: for a message_id that is not negative and a
\* complete body, postThread answers channel-not-found when the channel has
\* no entry, answers message-not-found when message_id >= the length of the
\* log, and in every other case appends the thread entry behind the entries
\* already under Messages[message_id], touches nothing else, and answers 200
\* with the message_id; it never panics.
C6_Steps ==
    \A p \in Procs :
        (ValidThread(p) /\ pc'[p] # pc[p]) =>
            /\ pc[p] = "pt_check" =>
                  IF liveMessages[Channel(p)] = Nil
                  THEN /\ pc'[p] = "done"
                       /\ result'[p] = Respond(StatusBadRequest,
                                               "Provided channel does not exist!", <<>>)
                  ELSE pc'[p] = "pt_len"
            /\ pc[p] = "pt_len" =>
                  IF Id(p) >= Len(Log(Channel(p)))
                  THEN /\ pc'[p] = "done"
                       /\ result'[p] = Respond(StatusBadRequest,
                                               "Provided messageId does not exist!", <<>>)
                  ELSE pc'[p] = "pt_lock"
            /\ pc[p] = "pt_lock" => pc'[p] = "pt_append"
            /\ pc[p] = "pt_append" =>
                  LET old == Log(Channel(p))
                      new == subjects'[liveMessages[Channel(p)]].Messages
                  IN  /\ pc'[p] = "pt_respond"
                      /\ Id(p) < Len(old)
                      /\ new = [old EXCEPT ![Id(p) + 1].Threads = Append(@, NewThread(p))]
            /\ pc[p] = "pt_respond" =>
                  /\ pc'[p] = "pt_return"
                  /\ result'[p] = Respond(StatusOK, "id", <<Id(p)>>)

C6_NoPanic == \A p \in Procs : ValidThread(p) => result[p] # PanicResult

C6_ThreadTargeting == [](C6_NoPanic) /\ [][C6_Steps]_vars

\* A second thread entry has just been appended behind the entry another
\* goroutine posted under the same message_id.
C6_Witness ==
    \E p \in Procs :
        /\ ValidThread(p) /\ pc[p] = "pt_respond"
        /\ LET th == Log(Channel(p))[Id(p) + 1].Threads
           IN  /\ Len(th) = 2
               /\ th[2] = NewThread(p)
               /\ th[1].Username # th[2].Username

\* C7. For an existing channel with N messages and afterId >= 0: when
\* afterId < N getMessage answers exactly the messages with id > afterId, in
\* ascending order of id; when afterId >= N it answers nothing-new and no
\* message.
C7_MessagesAfter ==
    \A p \in Procs :
        (pc[p] = "gm_unlock" /\ Id(p) >= 0) =>
            LET msgs == subjects[subj[p]].Messages
                out == result[p].payload
            IN  IF Id(p) < Len(msgs)
                THEN /\ result[p].status = StatusOK
                     /\ {out[i] : i \in 1..Len(out)}
                            = {msgs[k] : k \in {j \in 1..Len(msgs) : msgs[j].Id > Id(p)}}
                     /\ \A i, j \in 1..Len(out) : i < j => out[i].Id < out[j].Id
                     /\ Id(p) = 0 => out = msgs
                ELSE result[p] =
                        Respond(StatusBadRequest, "No new message after last_id", <<>>)

\* A reader asked for the messages after id 1 of a log of two and got the
\* second one only.
C7_Witness ==
    \E p \in Procs :
        /\ pc[p] = "gm_unlock" /\ Id(p) = 1
        /\ Len(subjects[subj[p]].Messages) = 2
        /\ Len(result[p].payload) = 1
        /\ result[p].payload[1].Id = 2

\* The goroutines inside a write critical section of subject s.
WritersInside(s) ==
    {q \in Procs : /\ pc[q] \in {"pm_len", "pm_append", "pm_respond", "pm_return",
                                  "pt_append", "pt_respond", "pt_return"}
                   /\ subj[q] = s}

\* C8. Read/write atomicity: while a getMessage or getThreads holds its read
\* lock (from before its snapshot until its return) no postMessage or
\* postThread is inside its critical section on the same subject; and every
\* message a getMessage answers has its author and body set and sits, under
\* its id k, in a log of length at least k.
C8_ReadWriteAtomicity ==
    \A p \in Procs :
        /\ pc[p] \in {"gm_read", "gm_unlock", "gt_read", "gt_unlock"} =>
              /\ WritersInside(subj[p]) = {}
              /\ subjects[subj[p]].w = 0
        /\ (pc[p] = "gm_unlock" /\ result[p].status = StatusOK) =>
              LET msgs == subjects[subj[p]].Messages
                  out == result[p].payload
              IN  \A i \in 1..Len(out) :
                      /\ out[i].Username # "" /\ out[i].Message # ""
                      /\ out[i].Id \in 1..Len(msgs)
                      /\ msgs[out[i].Id] = out[i]

\* A reader holds its snapshot of a log of two messages while a writer waits
\* for the lock of the same subject.
C8_Witness ==
    \E p, q \in Procs :
        /\ pc[p] = "gm_unlock" /\ Len(result[p].payload) = 2
        /\ pc[q] \in {"pm_lock", "pt_lock"}
        /\ liveMessages[Channel(q)] = subj[p]

\* The goroutines holding the lock of subject s, for reading or writing.
Holders(s) == subjects[s].r \cup ({subjects[s].w} \ {0})

\* A postMessage waits for a lock only while an operation on its own channel
\* holds that lock.
C9_WaitsOnOwnChannelOnly ==
    \A p \in Procs :
        /\ (pc[p] = "pm_glock" /\ globalMutex # 0) => Channel(globalMutex) = Channel(p)
        /\ (pc[p] = "pm_lock" /\ liveMessages[Channel(p)] # Nil) =>
              \A q \in Holders(liveMessages[Channel(p)]) : Channel(q) = Channel(p)

\* A log changes only in a step of a write handler on its own channel, and
\* the messages it held keep their place, id, author and body.
C9_LogStep ==
    \A c \in Keys :
        Log(c)' # Log(c) =>
            /\ \E p \in Procs :
                  /\ pc'[p] # pc[p]
                  /\ req[p].op \in {"postMessage", "postThread"}
                  /\ Channel(p) = c
            /\ Len(Log(c)') >= Len(Log(c))
            /\ \A k \in 1..Len(Log(c)) :
                  /\ Log(c)'[k].Id = Log(c)[k].Id
                  /\ Log(c)'[k].Username = Log(c)[k].Username
                  /\ Log(c)'[k].Message = Log(c)[k].Message

\* C9 as claimed. Channel isolation: no postMessage ever waits for a lock
\* that an operation on another channel holds, and writes to one channel
\* never change or reorder the log of another.
C9_ChannelIsolation == [](C9_WaitsOnOwnChannelOnly) /\ [][C9_LogStep]_vars

\* A call goes for globalMutex only when its look at line 127 found no
\* subject for its channel.
C9_SlowPathStep ==
    \A p \in Procs :
        (pc'[p] = "pm_glock" /\ pc[p] # "pm_glock") => liveMessages[Channel(p)'] = Nil

\* A postMessage waiting for a channel lock waits for the lock of its own
\* channel, held by operations on that channel only.
C9_ChannelLockOwn ==
    \A p \in Procs :
        (pc[p] = "pm_lock" /\ liveMessages[Channel(p)] # Nil) =>
            \A q \in Holders(liveMessages[Channel(p)]) : Channel(q) = Channel(p)

\* C9 as amended. A postMessage that finds the subject of its channel at
\* line 127 never goes for globalMutex; whichever way it came, the only
\* channel lock it waits for is its own channel's, held only by operations
\* on that channel; and writes to one channel never change or reorder the
\* log of another. (A postMessage that finds no subject waits for
\* globalMutex while a postMessage on any other channel holds it.)
C9_IsolationOnceCreated ==
    [](C9_ChannelLockOwn) /\ [][C9_SlowPathStep /\ C9_LogStep]_vars

\* A postMessage on a channel that already has a message holds the lock of
\* its channel while a postMessage creating another channel holds
\* globalMutex.
C9_Witness ==
    \E p, q \in Procs :
        /\ pc[p] = "pm_len" /\ Len(Log(Channel(p))) >= 1
        /\ globalMutex = q /\ q # p
        /\ Channel(q) # Channel(p)

\* C10. No panic on validated input: no handler whose last_id or message_id
\* parses as an integer, negative ones included, and whose author and body
\* are set ends in a panic.
C10_NoPanic ==
    \A p \in Procs :
        (ParseId(p).ok /\ (req[p].op \in {"postMessage", "postThread"} => NonEmpty(p)))
            => result[p] # PanicResult

\* ---------------------------------------------------------------- claim C11
\* The registry entry and the log of every key, as the handlers see them.
Visible == [c \in Keys |-> <<liveMessages[c], Log(c)>>]

\* A step of goroutine p that changes the registry or a log belongs to a
\* postMessage or postThread with a non-empty author and body; a postThread
\* that changed a log is about to answer, its answer is 200 OK and the answer
\* stays as written until the handler has returned.
C11_Step ==
    \A p \in Procs :
        pc'[p] # pc[p] =>
            /\ Visible' # Visible =>
                  /\ req[p].op \in {"postMessage", "postThread"}
                  /\ req[p].Username # "" /\ req[p].Message # ""
                  /\ req[p].op = "postThread" =>
                        Atoi(req[p].raw).ok /\ pc'[p] = "pt_respond"
            /\ pc[p] = "pt_respond" =>
                  pc'[p] = "pt_return" /\ result'[p].status = StatusOK
            /\ pc[p] = "pt_return" => pc'[p] = "done" /\ result'[p] = result[p]

\* A postMessage with a non-empty author and body ends in 200 OK, so every
\* postMessage that ends in a failure is one with an empty author or body.
C11_Outcome ==
    \A p \in Procs :
        (req[p].op = "postMessage" /\ pc[p] = "done"
            /\ req[p].Username # "" /\ req[p].Message # "")
                => result[p].status = StatusOK

\* C11: only a successful postMessage or postThread changes state: the steps
\* of getMessage and getThreads, and of a post that ends in a failure (empty
\* author or body, absent channel, message index out of range), leave the
\* registry and every channel's messages and threads unchanged, and create
\* no channel.
C11_FrameCondition == [](C11_Outcome) /\ [][C11_Step]_vars

\* A postMessage with an empty author or body has failed on a channel that
\* still does not exist, and a postThread has failed on an existing channel
\* whose messages still have no thread.
C11_Witness ==
    \E p, q \in Procs :
        /\ pc[p] = "done" /\ req[p].op = "postMessage"
        /\ result[p].status = StatusBadRequest
        /\ liveMessages[Channel(p)] = Nil
        /\ pc[q] = "done" /\ req[q].op = "postThread"
        /\ req[q].Username # "" /\ req[q].Message # ""
        /\ result[q].text = "Provided messageId does not exist!"
        /\ Log(Channel(q)) # <<>>
        /\ ThreadsIn(Log(Channel(q))) = 0

IsPrefix(s, t) == Len(s) <= Len(t) /\ \A i \in 1..Len(s) : s[i] = t[i]

\* C13: append-only state, in every step: a key that has a subject keeps that
\* subject; every message of its log keeps its position, id, author and body;
\* the log is only extended at its end; the threads of every message are
\* only extended at their end.
C13_Step ==
    \A c \in Keys :
        liveMessages[c] # Nil =>
            /\ liveMessages'[c] = liveMessages[c]
            /\ Len(Log(c)') >= Len(Log(c))
            /\ \A i \in 1..Len(Log(c)) :
                  /\ Log(c)'[i].Id = Log(c)[i].Id
                  /\ Log(c)'[i].Username = Log(c)[i].Username
                  /\ Log(c)'[i].Message = Log(c)[i].Message
                  /\ IsPrefix(Log(c)[i].Threads, Log(c)'[i].Threads)

C13_AppendOnly == [][C13_Step]_vars

\* A log extended twice by different authors, whose first message gained a
\* thread.
C13_Witness ==
    \E c \in Keys :
        /\ Len(Log(c)) = 2
        /\ Len(Log(c)[1].Threads) = 1
        /\ Log(c)[1].Username # Log(c)[2].Username

\* ---------------------------------------------------------------- claim C14
\* The steps of goroutine p that wait for no lock.
Run(p) ==
    \/ Finish(p)
    \/ GmLookup(p) \/ GmRead(p) \/ GmUnlock(p)
    \/ GtLookup(p) \/ GtRead(p) \/ GtUnlock(p)
    \/ PmCheck(p) \/ PmRecheck(p) \/ PmAlloc(p) \/ PmStore(p)
    \/ PmLen(p) \/ PmAppend(p) \/ PmRespond(p) \/ PmReturn(p)
    \/ PtCheck(p) \/ PtLen(p) \/ PtAppend(p) \/ PtRespond(p) \/ PtReturn(p)

\* The steps of goroutine p that acquire a lock.
Acquire(p) == GmRLock(p) \/ GtRLock(p) \/ PmGLock(p) \/ PmLock(p) \/ PtLock(p)

\* The scheduler runs every runnable goroutine, and a goroutine waiting for a
\* lock that is released again and again is granted it.
FairSpec == Spec /\ \A p \in Procs : WF_vars(Run(p)) /\ SF_vars(Acquire(p))

\* The locks goroutine p holds.
HoldsLock(p) == globalMutex = p \/ \E s \in 1..Len(subjects) : p \in Holders(s)

\* C14: deadlock freedom: every operation that has started eventually
\* returns, having released every lock it took.
C14_EveryOperationReturns ==
    \A p \in Procs : (pc[p] # "idle") ~> (pc[p] = "done" /\ ~HoldsLock(p))

\* Short of a stop of the whole process, every started operation returns
\* with its locks released.
C14_ReturnsUnlessCrashed ==
    \A p \in Procs : (pc[p] # "idle") ~> ((pc[p] = "done" /\ ~HoldsLock(p)) \/ crashed)

\* ---------------------------------------------------------------- claim C15
\* C15: globalMutex is held only while postMessage re-checks the registry and
\* installs the new subject: its holder is not waiting for a channel lock,
\* holds none, is not appending and is not writing its response.
C15_GlobalMutexScope ==
    \A p \in Procs :
        globalMutex = p =>
            /\ pc[p] \in {"pm_recheck", "pm_alloc", "pm_store"}
            /\ \A s \in 1..Len(subjects) : p \notin Holders(s)

\* ---------------------------------------------------------------- claim C16
\* Goroutine p is assigning the Messages slice of subject s (line 146).
Appending(p, s) == pc[p] = "pm_append" /\ liveMessages[Channel(p)] = s

\* C16: no data race: no goroutine reads the registry while another assigns
\* to it, and none reads the length of a log while another appends to it,
\* unless both hold a common lock.
C16_NoDataRace ==
    \A p \in Procs :
        /\ ~(ReadsMap(p) /\ MapWriting(p))
        /\ pc[p] = "pt_len" =>
              \A q \in Procs \ {p} : ~Appending(q, liveMessages[Channel(p)])

\* ---------------------------------------------------------------- claim C17
\* C17: in all four handlers the channel lock covers only the inspection or
\* mutation of the subject: a goroutine that holds or waits for a channel
\* lock does not hold globalMutex, and a goroutine that is writing or has
\* written its response holds no channel lock.
C17_ChannelLockScope ==
    \A p \in Procs :
        /\ globalMutex = p =>
              /\ pc[p] # "pm_lock"
              /\ \A s \in 1..Len(subjects) : p \notin Holders(s)
        /\ (pc[p] \in {"pm_respond", "pt_respond"} \/ result[p] # NoResult) =>
              \A s \in 1..Len(subjects) : p \notin Holders(s)

\* ---------------------------------------------------------------- claim C18
\* The name holds an uppercase letter.
HasUpper(n) == n \in {"A", "B"}

\* The spellings of a name that differ in letter case only.
Casings(n) ==
    IF n \in {"a", "A"} THEN {"a", "A"}
    ELSE IF n \in {"b", "B"} THEN {"b", "B"}
    ELSE {n}

\* Messages were posted to name n and to no other casing of it.
PostedOnlyTo(n) ==
    /\ Log(n) # <<>>
    /\ \A m \in (Casings(n) \cap Keys) \ {n} : liveMessages[m] = Nil

\* getMessage and getThreads for any casing of n have answered that the
\* channel does not exist.
C18_ReadsMiss ==
    \A n \in ChannelNames : \A p \in Procs :
        (HasUpper(n) /\ PostedOnlyTo(n)
            /\ req[p].op \in {"getMessage", "getThreads"} /\ req[p].name \in Casings(n)
            /\ pc[p] = "done" /\ Atoi(req[p].raw).ok)
                => result[p] = Respond(StatusBadRequest, "Sorry No such channel exist!", <<>>)

\* postMessage and postThread for the exact name find the channel and append
\* to its log.
C18_WritesReach ==
    \A p \in Procs :
        (pc'[p] # pc[p] /\ HasUpper(req[p].name) /\ PostedOnlyTo(req[p].name)
            /\ req[p].Username # "" /\ req[p].Message # "") =>
            LET n == req[p].name
            IN  /\ pc[p] = "pm_check" => pc'[p] = "pm_lock"
                /\ (pc[p] = "pt_check" /\ Atoi(req[p].raw).ok) => pc'[p] = "pt_len"
                /\ pc[p] = "pm_append" => Len(Log(n)') = Len(Log(n)) + 1
                /\ (pc[p] = "pt_append" /\ InRange(Log(n), Id(p))) =>
                      ThreadsIn(Log(n)') = ThreadsIn(Log(n)) + 1

\* C18: the read paths look the channel up by its lowercased name, the write
\* paths by the name as supplied: after messages were posted only to a name
\* holding an uppercase letter, getMessage and getThreads for that name in
\* any casing answer that the channel does not exist, while postMessage and
\* postThread for the exact name reach the channel.
C18_CaseAsymmetry == [](C18_ReadsMiss) /\ [][C18_WritesReach]_vars

\* A message and a thread were written to "B", and a getMessage for
\* "B" has answered that the channel does not exist.
C18_Witness ==
    \E p \in Procs :
        /\ Len(Log("B")) >= 1
        /\ ThreadsIn(Log("B")) >= 1
        /\ liveMessages["b"] = Nil
        /\ req[p].op = "getMessage" /\ req[p].name = "B" /\ pc[p] = "done"
        /\ result[p].text = "Sorry No such channel exist!"

\* ---------------------------------------------------------------- claim C19
\* C19: postThread compares message_id with the length of the log before it
\* takes the write lock; a message_id >= 0 that passed the comparison is
\* still an index of the log while postThread waits for the lock and when it
\* appends under it, whatever the other goroutines did in between.
C19_IndexStillValid ==
    \A p \in Procs :
        (pc[p] \in {"pt_lock", "pt_append"} /\ Id(p) >= 0)
            => Id(p) < Len(Log(Channel(p)))

\* postThread passed the comparison and is about to append under the lock, on
\* a channel whose log another goroutine has extended to two messages.
C19_Witness ==
    \E p \in Procs : \E q \in Procs \ {p} :
        /\ pc[p] = "pt_append"
        /\ Id(p) = 0
        /\ pc[q] = "done" /\ req[q].op = "postMessage" /\ Channel(q) = Channel(p)
        /\ result[q].status = StatusOK
        /\ Len(Log(Channel(p))) = 2

\* ---------------------------------------------------------------- claim C20
\* Goroutine p has found a subject for its channel in the registry.
Found(p) ==
    \/ pc[p] \in {"gm_rlock", "gm_read", "gm_unlock", "gt_rlock", "gt_read", "gt_unlock"}
    \/ pc[p] \in {"pt_len", "pt_lock", "pt_append", "pt_respond", "pt_return"}

\* C20: the creation of a subject and the first append are never seen apart:
\* whenever getMessage, getThreads or postThread has found a channel, its log
\* holds at least one message, and getMessage with last_id 0 on a channel it
\* found does not answer that there is nothing new.
C20_NeverSeenEmpty ==
    \A p \in Procs :
        Found(p) =>
            /\ Len(Log(Channel(p))) >= 1
            /\ (pc[p] = "gm_unlock" /\ Id(p) = 0) =>
                  result[p].text # "No new message after last_id"

\* The postMessage calls that installed the subject of key c and have not
\* appended to it yet.
Creating(c) ==
    {q \in Procs : /\ req[q].op = "postMessage" /\ Channel(q) = c
                   /\ globalMutex = q
                   /\ pc[q] \in {"pm_lock", "pm_len", "pm_append"}}

\* C20 as the program has it: a channel found in the registry has an empty
\* log only while the postMessage that installed it is between the install
\* and its first append, still holding globalMutex; only in that window does
\* getMessage with last_id 0 on a found channel answer that there is nothing
\* new, and then the creating postMessage has not yet taken the write lock.
C20_EmptyOnlyWhileCreating ==
    /\ \A c \in Keys :
          (liveMessages[c] # Nil /\ Log(c) = <<>>) => Cardinality(Creating(c)) = 1
    /\ \A p \in Procs :
          (pc[p] = "gm_unlock" /\ Id(p) = 0) =>
              IF Log(Channel(p)) = <<>>
              THEN /\ result[p].text = "No new message after last_id"
                   /\ \E q \in Creating(Channel(p)) : pc[q] = "pm_lock"
              ELSE result[p] = Respond(StatusOK, "messages", Log(Channel(p)))

\* getMessage with last_id 0 found the channel and answered that there is
\* nothing new, while the postMessage that installed the subject waits for
\* the write lock.
C20_Witness ==
    \E p \in Procs : \E q \in Procs \ {p} :
        /\ pc[p] = "gm_unlock" /\ Id(p) = 0
        /\ result[p].text = "No new message after last_id"
        /\ q \in Creating(Channel(p))
====
